---- MODULE Spec2Model ----
(***************************************************************************)
(* Model of the fine-tuning driver of src/train.py: the epoch loop of      *)
(* __main__, test() with its best-accuracy bookkeeping, save_checkpoint(), *)
(* adjust_learning_rate() and get_output_folder().                         *)
(*                                                                         *)
(* Modelling conventions.                                                  *)
(*  - Strings the code takes apart (folder names, file names) are          *)
(*    sequences of tokens: "-run" and ".pth.tar" are single tokens, a      *)
(*    decimal digit is a token, every other token is a piece of text that  *)
(*    contains neither separator.                                          *)
(*  - Floating point learning rates are exact rationals <<num, den>> in    *)
(*    lowest terms with den > 0.  math.cos(math.pi * e / n) is the         *)
(*    rational CosPi(e, n), exact at the multiples of pi/2 and pi/3.       *)
(*  - An optional value is <<>> (absent, Python's None or an unbound name)  *)
(*    or <<v>>; a folder name or a rate is absent when it is <<>>.          *)
(*  - A state_dict is the record [weight |-> k]; k names one value of the  *)
(*    model's parameters.                                                  *)
(*  - The forward/backward passes, models.vgg, utils.utils and torch are   *)
(*    external collaborators: a pass either completes (yielding some top-1 *)
(*    average) or raises.                                                  *)
(*  - A process is modelled from the point where its data loaders exist:   *)
(*    the data pipeline of train.py 284-326 is taken as constructed, with  *)
(*    TensorDataset and DataLoader, which the file never imports, bound.   *)
(***************************************************************************)
EXTENDS Integers, Sequences, FiniteSets, TLC

VARIABLES
    listing,    \* ./logs: folder name -> "dir" | "file"          (os.listdir)
    files,      \* checkpoint files on disk: path -> content
    runs,       \* number of processes launched so far
    pc,         \* position of the current process in __main__
    exc,        \* exception that ended the process, or "none"
    args,       \* parse_args() result
    net,        \* <<state_dict of the global net>>, or <<>>
    optimizer,  \* <<state of the global optimizer>>, or <<>>
    best_acc,   \* global best_acc
    epoch,      \* loop variable of the epoch loop
    log_dir,    \* folder returned by get_output_folder, or <<>>
    top1,       \* <<top1.avg of the last evaluation pass>>, or <<>>
    is_best,    \* is_best of the last evaluation pass with save
    lr_ret,     \* rate the last adjust_learning_rate call returned, or <<>>
    sink,       \* scalars handed to the SummaryWriter by this process
    trace,      \* passes executed by this process: <<kind, epoch>>
    hist,       \* top1.avg of each evaluation epoch with save of this process
    files0,     \* files as they were when this process was launched
    listing0,   \* listing as it was when this process (or lone call) began
    loaded,     \* <<content torch.load returned in this process>>, or <<>>
    ids,        \* run numbers get_output_folder has returned, in call order
    returned    \* adjust_learning_rate results by epoch (pure-function runs)

vars == <<listing, files, runs, pc, exc, args, net, optimizer, best_acc, epoch,
          log_dir, top1, is_best, lr_ret, sink, trace, hist, files0, listing0,
          loaded, ids, returned>>

\* ------------------------------------------------------------------ bounds
MaxRuns == 2
MaxNEpoch == 2
MaxAcc == 2
MaxEntries == 2
MaxCalls == 2

Accs == 0..MaxAcc

\* ------------------------------------------------------- exact rationals
RECURSIVE GCD(_, _)
GCD(a, b) == IF b = 0 THEN a ELSE GCD(b, a % b)

Abs(x) == IF x < 0 THEN -x ELSE x

Norm(q) ==
    LET n == q[1]
        d == q[2]
        g == GCD(Abs(n), Abs(d))
        s == IF d < 0 THEN -1 ELSE 1
    IN  IF n = 0 THEN <<0, 1>> ELSE <<s * (n \div g), s * (d \div g)>>

RMul(p, q) == Norm(<<p[1] * q[1], p[2] * q[2]>>)
RAdd(p, q) == Norm(<<p[1] * q[2] + q[1] * p[2], p[2] * q[2]>>)
RNeg(p) == <<-p[1], p[2]>>
\* p < q, with the common factors removed before the cross multiplication
RLess(p, q) ==
    LET gn == GCD(Abs(p[1]), Abs(q[1]))
        gd == GCD(p[2], q[2])
        n1 == IF gn = 0 THEN p[1] ELSE p[1] \div gn
        n2 == IF gn = 0 THEN q[1] ELSE q[1] \div gn
    IN  n1 * (q[2] \div gd) < n2 * (p[2] \div gd)

RECURSIVE Pow(_, _)
Pow(b, k) == IF k = 0 THEN 1 ELSE b * Pow(b, k - 1)

\* --------------------------------------------------- adjust_learning_rate
Step == 1
DecayNum == 24
DecayDen == 25

SupportedLrTypes == {"cos", "exp", "fixed"}

\* math.cos(math.pi * e / n) for e >= 0, n > 0 (Bhaskara's rational form on
\* [0, pi/2], reflected to [pi/2, pi] and folded with period 2 pi).
Bhaskara(r, n) == Norm(<<n * n - 4 * r * r, n * n + r * r>>)

CosPi(e, n) ==
    LET m == e % (2 * n)
        r == IF m > n THEN 2 * n - m ELSE m
    IN  IF 2 * r <= n THEN Bhaskara(r, n) ELSE RNeg(Bhaskara(n - r, n))

\* lr = 0.5 * args.lr * (1 + math.cos(math.pi * epoch / args.n_epoch))
CosLr(lr0, ep, n) == RMul(<<1, 2>>, RMul(lr0, RAdd(<<1, 1>>, CosPi(ep, n))))

ExpLrLinear(lr0, ep) == RMul(lr0, Norm(<<DecayNum * (ep \div Step), DecayDen>>))

\* lr = args.lr * (decay ** (epoch // step))
ExpLr(lr0, ep) ==
    RMul(lr0, Norm(<<Pow(DecayNum, ep \div Step), Pow(DecayDen, ep \div Step)>>))

\* lr = args.lr
FixedLr(lr0) == lr0

LrBranchFallThrough(lr_type) ==
    IF lr_type = "cos" THEN "cos"
    ELSE IF lr_type = "exp" THEN "exp"
    ELSE "fixed"

\* The branch an lr_type selects; "raise" is the else branch.
LrBranch(lr_type) ==
    IF lr_type = "cos" THEN "cos"
    ELSE IF lr_type = "exp" THEN "exp"
    ELSE IF lr_type = "fixed" THEN "fixed"
    ELSE "raise"

\* Outcome of adjust_learning_rate(optimizer, ep) under arguments a:
\* the exception raised ("none" when it returns) and the rate computed.
AdjustOutcome(a, ep) ==
    LET b == LrBranch(a.lr_type)
    IN  IF b = "cos"
        THEN IF a.n_epoch = 0
             THEN [exc |-> "ZeroDivisionError", lr |-> <<>>]
             ELSE [exc |-> "none", lr |-> CosLr(a.lr, ep, a.n_epoch)]
        ELSE IF b = "exp" THEN [exc |-> "none", lr |-> ExpLr(a.lr, ep)]
        ELSE IF b = "fixed" THEN [exc |-> "none", lr |-> FixedLr(a.lr)]
        ELSE [exc |-> "NotImplementedError", lr |-> <<>>]

SetLrSkipped(opt, out) == opt

\* for param_group in optimizer.param_groups: param_group['lr'] = lr
SetLr(opt, out) == IF out.exc = "none" THEN [opt EXCEPT !.lr = out.lr] ELSE opt

\* ------------------------------------------------------- get_output_folder
Digits == <<"0", "1", "2", "3", "4", "5", "6", "7", "8", "9">>

IsDigit(c) == \E i \in 1..Len(Digits) : Digits[i] = c
DigitVal(c) == (CHOOSE i \in 1..Len(Digits) : Digits[i] = c) - 1

RECURSIVE DigitsVal(_)
DigitsVal(s) ==
    IF s = <<>> THEN 0
    ELSE 10 * DigitsVal(SubSeq(s, 1, Len(s) - 1)) + DigitVal(s[Len(s)])

AllDigits(s) == s # <<>> /\ \A i \in 1..Len(s) : IsDigit(s[i])

\* int(text): [ok, val]; ok = FALSE stands for ValueError.
IntOf(s) ==
    IF s # <<>> /\ s[1] \in {"-", "+"}
    THEN IF AllDigits(Tail(s))
         THEN [ok |-> TRUE,
               val |-> IF s[1] = "-" THEN -DigitsVal(Tail(s)) ELSE DigitsVal(Tail(s))]
         ELSE [ok |-> FALSE, val |-> 0]
    ELSE IF AllDigits(s) THEN [ok |-> TRUE, val |-> DigitsVal(s)]
    ELSE [ok |-> FALSE, val |-> 0]

\* '{}'.format(n) for n >= 0
RECURSIVE FormatInt(_)
FormatInt(n) ==
    IF n < 10 THEN <<Digits[n + 1]>>
    ELSE FormatInt(n \div 10) \o <<Digits[(n % 10) + 1]>>

\* folder_name.split('-run')[-1]
SplitLast(name) ==
    LET idx == {i \in 1..Len(name) : name[i] = "-run"}
    IN  IF idx = {} THEN name
        ELSE SubSeq(name, (CHOOSE i \in idx : \A j \in idx : j <= i) + 1, Len(name))

EntryIdNoDirCheck(lst, name) ==
    LET r == IntOf(SplitLast(name))
    IN  IF r.ok THEN r.val ELSE 0

\* The run number a listed entry contributes to the scan, 0 when it is
\* skipped (not a directory, or int() raises).
EntryId(lst, name) ==
    IF lst[name] # "dir" THEN 0
    ELSE LET r == IntOf(SplitLast(name))
         IN  IF r.ok THEN r.val ELSE 0

\* experiment_id after the scan of os.listdir(parent_dir)
ScanMax(lst) ==
    LET found == {EntryId(lst, n) : n \in DOMAIN lst} \cup {0}
    IN  CHOOSE m \in found : \A k \in found : k <= m

ExperimentIdNoIncrement(lst) == ScanMax(lst)

\* experiment_id += 1
ExperimentId(lst) == ScanMax(lst) + 1

\* '{}_{}_finetune'.format(args.model, args.dataset)
EnvName(a) == <<a.model, "_", a.dataset, "_finetune">>

\* os.path.join(parent_dir, env_name) + '-run{}'.format(experiment_id)
OutputFolder(lst, env_name) == env_name \o <<"-run">> \o FormatInt(ExperimentId(lst))

\* os.makedirs(path, exist_ok=True): the exception, and the listing after.
MakeDirs(lst, name) ==
    IF name \in DOMAIN lst
    THEN IF lst[name] = "dir" THEN [exc |-> "none", listing |-> lst]
         ELSE [exc |-> "FileExistsError", listing |-> lst]
    ELSE [exc |-> "none", listing |-> (name :> "dir") @@ lst]

\* --------------------------------------------------------- save_checkpoint
CkptFile == <<"ckpt", ".pth.tar">>

\* str.replace('.pth.tar', '.best.pth.tar') on a tokenised string
RECURSIVE ReplaceExt(_)
ReplaceExt(s) ==
    IF s = <<>> THEN <<>>
    ELSE (IF s[1] = ".pth.tar" THEN <<".best", ".pth.tar">> ELSE <<s[1]>>)
         \o ReplaceExt(Tail(s))

\* os.path.join(checkpoint_dir, 'ckpt.pth.tar')
Filename(dir) == <<dir, CkptFile>>
\* filename.replace('.pth.tar', '.best.pth.tar')
BestFilename(dir) == <<ReplaceExt(dir), ReplaceExt(CkptFile)>>

CopyAlways(fs, isb, dir) == (BestFilename(dir) :> fs[Filename(dir)]) @@ fs

\* shutil.copyfile(filename, best) when is_best
CopyBest(fs, isb, dir) ==
    IF isb THEN (BestFilename(dir) :> fs[Filename(dir)]) @@ fs ELSE fs

\* save_checkpoint(state, is_best, checkpoint_dir)
SaveCheckpoint(fs, state, isb, dir) ==
    CopyBest((Filename(dir) :> state) @@ fs, isb, dir)

\* -------------------------------------------------------------------- test
IsBestOrEqual(t1, best) == t1 >= best

\* if top1.avg > best_acc
IsBest(t1, best) == t1 > best

\* best_acc after the comparison
NewBest(t1, best) == IF IsBest(t1, best) THEN t1 ELSE best

CheckpointStateNextEpoch(ep, a, sd, t1, opt) ==
    [epoch |-> ep + 1, model |-> a.model, dataset |-> a.dataset, state_dict |-> sd,
     acc |-> t1, optimizer |-> opt]

\* the dict handed to save_checkpoint
CheckpointState(ep, a, sd, t1, opt) ==
    [epoch |-> ep, model |-> a.model, dataset |-> a.dataset, state_dict |-> sd,
     acc |-> t1, optimizer |-> opt]

\* writer.add_scalar calls of test()
TestScalars(ep) == <<<<"loss/test", ep>>, <<"acc/test_top1", ep>>, <<"acc/test_top5", ep>>>>
\* writer.add_scalar calls of train()
TrainScalars(ep) == <<<<"loss/train", ep>>, <<"acc/train_top1", ep>>, <<"acc/train_top5", ep>>>>

\* ------------------------------------------------------------------ resume
\* sd = checkpoint['state_dict'] if 'state_dict' in checkpoint else checkpoint
StateDictOf(checkpoint) ==
    IF "state_dict" \in DOMAIN checkpoint THEN checkpoint.state_dict ELSE checkpoint

\* ---------------------------------------------------------------- __main__
StartEpoch == 0
InitBestAcc == 0

SupportedModels == {"vgg16_bn", "vgg16_bn_x"}
Models == SupportedModels \cup {"mobilenet"}
LrTypes == SupportedLrTypes \cup {"step3"}
DefaultLr == <<1, 10>>

\* A raw state_dict left by the pruning step, and a path with no file.
PrunedPath == <<<<"checkpoints">>, <<"pruned", ".pth">>>>
MissingPath == <<<<"checkpoints">>, <<"missing", ".pth">>>>
PrunedWeights == [weight |-> 10]

\* get_model() on a fresh process: the pretrained/initial parameters.
InitWeights == [weight |-> 0]

\* get_model(): the exception raised, and the net built.
GetModel(a) ==
    IF a.model = "vgg16_bn" THEN [exc |-> "none", net |-> <<InitWeights>>]
    ELSE IF a.model = "vgg16_bn_x" THEN [exc |-> "none", net |-> <<InitWeights>>]
    ELSE [exc |-> "NotImplementedError", net |-> <<>>]

\* optimizer.step() over one training pass: new parameters, one more pass
\* recorded in the optimizer's momentum state.
Trained(sd) == [weight |-> sd.weight + 1]
Stepped(opt) == [opt EXCEPT !.steps = @ + 1]

\* optim.SGD(net.parameters(), lr=args.lr, ...)
NewOptimizer(a) == [lr |-> a.lr, steps |-> 0]

NoArgs == [model |-> "mobilenet", dataset |-> "imagenet", lr |-> DefaultLr,
           lr_type |-> "exp", n_epoch |-> 0, ckpt_path |-> <<>>, eval |-> FALSE]

ArgChoices(fs) ==
    [model : Models, dataset : {"imagenet"}, lr : {DefaultLr}, lr_type : LrTypes,
     n_epoch : 0..MaxNEpoch, ckpt_path : {<<>>, MissingPath} \cup DOMAIN fs,
     eval : BOOLEAN]

\* Folder entries ./logs may hold before the first run.
EnvA == <<"vgg16_bn", "_", "imagenet", "_finetune">>
EnvB == <<"vgg16_bn_x", "_", "imagenet", "_finetune">>
EntryPool ==
    { <<EnvA \o <<"-run", "1">>, "dir">>,
      <<EnvA \o <<"-run", "3">>, "dir">>,
      <<EnvB \o <<"-run", "2">>, "dir">>,
      <<EnvA \o <<"-run", "X">>, "dir">>,
      <<EnvA \o <<"-run", "0", "2">>, "dir">>,
      <<EnvA \o <<"-run", "-", "2">>, "dir">>,
      <<EnvA \o <<"-run", "1">>, "file">>,
      <<EnvB \o <<"-run", "5">>, "file">>,
      <<<<"4">>, "dir">> }

RECURSIVE ListingOf(_)
ListingOf(es) ==
    IF es = {} THEN <<>>
    ELSE LET e == CHOOSE x \in es : TRUE
         IN  (e[1] :> e[2]) @@ ListingOf(es \ {e})

InitListings ==
    { ListingOf(es) : es \in { S \in SUBSET EntryPool :
          /\ Cardinality(S) <= MaxEntries
          /\ \A x, y \in S : x[1] = y[1] => x = y } }

ProcessReset(a) ==
    /\ args' = a
    /\ best_acc' = InitBestAcc
    /\ epoch' = StartEpoch
    /\ net' = <<>>
    /\ optimizer' = <<>>
    /\ log_dir' = <<>>
    /\ top1' = <<>>
    /\ is_best' = FALSE
    /\ lr_ret' = <<>>
    /\ sink' = <<>>
    /\ trace' = <<>>
    /\ hist' = <<>>
    /\ loaded' = <<>>
    /\ exc' = "none"

Init ==
    /\ listing \in InitListings
    /\ files = (PrunedPath :> PrunedWeights)
    /\ runs = 0
    /\ pc = "idle"
    /\ exc = "none"
    /\ args = NoArgs
    /\ net = <<>>
    /\ optimizer = <<>>
    /\ best_acc = InitBestAcc
    /\ epoch = StartEpoch
    /\ log_dir = <<>>
    /\ top1 = <<>>
    /\ is_best = FALSE
    /\ lr_ret = <<>>
    /\ sink = <<>>
    /\ trace = <<>>
    /\ hist = <<>>
    /\ files0 = files
    /\ listing0 = listing
    /\ loaded = <<>>
    /\ ids = <<>>
    /\ returned = {}

\* parse_args(), best_acc = 0, start_epoch = 0 of a starting process
StartProcess ==
    /\ \E a \in ArgChoices(files) : ProcessReset(a)
    /\ runs' = runs + 1
    /\ pc' = "get_model"
    /\ files0' = files
    /\ listing0' = listing
    /\ UNCHANGED <<listing, files, ids, returned>>

\* The script is started.
Launch ==
    /\ pc = "idle"
    /\ StartProcess

\* The script is started again after an earlier process has terminated.
Relaunch ==
    /\ pc = "done"
    /\ runs < MaxRuns
    /\ StartProcess

\* net = get_model()
BuildModel ==
    /\ pc = "get_model"
    /\ LET r == GetModel(args)
       IN  /\ exc' = r.exc
           /\ net' = r.net
           /\ pc' = IF r.exc = "none" THEN "resume" ELSE "done"
    /\ UNCHANGED <<listing, files, runs, args, optimizer, best_acc, epoch, log_dir,
                   top1, is_best, lr_ret, sink, trace, hist, files0, listing0,
                   loaded, ids, returned>>

\* if args.ckpt_path is not None: torch.load, net.load_state_dict(sd)
Resume ==
    /\ pc = "resume"
    /\ IF args.ckpt_path = <<>>
       THEN /\ pc' = "optim"
            /\ UNCHANGED <<exc, net, loaded>>
       ELSE IF args.ckpt_path \notin DOMAIN files
       THEN /\ pc' = "done"
            /\ exc' = "FileNotFoundError"
            /\ UNCHANGED <<net, loaded>>
       ELSE /\ pc' = "optim"
            /\ loaded' = <<files[args.ckpt_path]>>
            /\ net' = <<StateDictOf(files[args.ckpt_path])>>
            /\ UNCHANGED exc
    /\ UNCHANGED <<listing, files, runs, args, optimizer, best_acc, epoch, log_dir,
                   top1, is_best, lr_ret, sink, trace, hist, files0, listing0,
                   ids, returned>>

\* optimizer = optim.SGD(...); then the eval / train branch
MakeOptimizer ==
    /\ pc = "optim"
    /\ optimizer' = <<NewOptimizer(args)>>
    /\ pc' = IF args.eval THEN "eval" ELSE "folder"
    /\ UNCHANGED <<listing, files, runs, exc, args, net, best_acc, epoch, log_dir,
                   top1, is_best, lr_ret, sink, trace, hist, files0, listing0,
                   loaded, ids, returned>>

\* test(ep, loader, save) with t1 the top-1 average the pass measured
Test(ep, t1, save) ==
    /\ top1' = <<t1>>
    /\ trace' = Append(trace, <<"test", ep>>)
    /\ IF save
       THEN /\ sink' = sink \o TestScalars(ep)
            /\ is_best' = IsBest(t1, best_acc)
            /\ best_acc' = NewBest(t1, best_acc)
            /\ files' = SaveCheckpoint(files,
                                       CheckpointState(ep, args, net[1], t1, optimizer[1]),
                                       IsBest(t1, best_acc), log_dir)
            /\ hist' = Append(hist, t1)
       ELSE UNCHANGED <<sink, is_best, best_acc, files, hist>>

EvalSaveDefault == TRUE

\* the save argument of the eval-only call
EvalSave == FALSE

\* test(0, val_loader, save=False)
EvalOnly ==
    /\ pc = "eval"
    /\ \E t1 \in Accs : Test(0, t1, EvalSave)
    /\ pc' = "done"
    /\ UNCHANGED <<listing, runs, exc, args, net, optimizer, epoch, log_dir, lr_ret,
                   files0, listing0, loaded, ids, returned>>

\* log_dir = get_output_folder('./logs', ...); writer = SummaryWriter(log_dir)
AllocFolder ==
    /\ pc = "folder"
    /\ LET name == OutputFolder(listing, EnvName(args))
           r == MakeDirs(listing, name)
       IN  /\ exc' = r.exc
           /\ listing' = r.listing
           /\ IF r.exc = "none"
              THEN /\ log_dir' = name
                   /\ ids' = Append(ids, ExperimentId(listing))
                   /\ pc' = "loop"
              ELSE /\ pc' = "done"
                   /\ UNCHANGED <<log_dir, ids>>
    /\ UNCHANGED <<files, runs, args, net, optimizer, best_acc, epoch, top1, is_best,
                   lr_ret, sink, trace, hist, files0, listing0, loaded, returned>>

\* for epoch in range(start_epoch, start_epoch + args.n_epoch)
InLoop == epoch < StartEpoch + args.n_epoch

\* lr = adjust_learning_rate(optimizer, epoch)
AdjustStep ==
    /\ pc = "loop"
    /\ InLoop
    /\ LET out == AdjustOutcome(args, epoch)
       IN  /\ exc' = out.exc
           /\ optimizer' = <<SetLr(optimizer[1], out)>>
           /\ IF out.exc = "none"
              THEN /\ lr_ret' = out.lr
                   /\ trace' = Append(trace, <<"lr", epoch>>)
                   /\ pc' = "train"
              ELSE /\ pc' = "done"
                   /\ UNCHANGED <<lr_ret, trace>>
    /\ UNCHANGED <<listing, files, runs, args, net, best_acc, epoch, log_dir, top1,
                   is_best, sink, hist, files0, listing0, loaded, ids, returned>>

\* train(epoch, train_loader)
TrainStep ==
    /\ pc = "train"
    /\ net' = <<Trained(net[1])>>
    /\ optimizer' = <<Stepped(optimizer[1])>>
    /\ sink' = sink \o TrainScalars(epoch)
    /\ trace' = Append(trace, <<"train", epoch>>)
    /\ pc' = "test"
    /\ UNCHANGED <<listing, files, runs, exc, args, best_acc, epoch, log_dir, top1,
                   is_best, lr_ret, hist, files0, listing0, loaded, ids, returned>>

\* test(epoch, val_loader); the loop then moves to the next epoch
TestStep ==
    /\ pc = "test"
    /\ \E t1 \in Accs : Test(epoch, t1, TRUE)
    /\ epoch' = epoch + 1
    /\ pc' = "loop"
    /\ UNCHANGED <<listing, runs, exc, args, net, optimizer, log_dir, lr_ret,
                   files0, listing0, loaded, ids, returned>>

\* a batch of a training or evaluation pass raises: the process terminates
BatchFailure ==
    /\ pc \in {"train", "test", "eval"}
    /\ exc' = "RuntimeError"
    /\ pc' = "done"
    /\ UNCHANGED <<listing, files, runs, args, net, optimizer, best_acc, epoch,
                   log_dir, top1, is_best, lr_ret, sink, trace, hist, files0,
                   listing0, loaded, ids, returned>>

\* the loop is exhausted: writer.close(), final print, exit 0
Finish ==
    /\ pc = "loop"
    /\ ~InLoop
    /\ pc' = "done"
    /\ UNCHANGED <<listing, files, runs, exc, args, net, optimizer, best_acc, epoch,
                   log_dir, top1, is_best, lr_ret, sink, trace, hist, files0,
                   listing0, loaded, ids, returned>>

Next ==
    \/ Launch
    \/ BuildModel
    \/ Resume
    \/ MakeOptimizer
    \/ EvalOnly
    \/ AllocFolder
    \/ AdjustStep
    \/ TrainStep
    \/ TestStep
    \/ BatchFailure
    \/ Finish

Spec == Init /\ [][Next]_vars

\* Successive processes sharing ./logs and the checkpoint files.
NextRuns == Next \/ Relaunch

\* The successive processes start from an empty ./logs.
InitRuns == Init /\ listing = <<>>

SpecRuns == InitRuns /\ [][NextRuns]_vars

\* ------------------------------------------- get_output_folder, called alone
\* get_output_folder('./logs', env_name) called by itself, again and again.
CallFolder ==
    /\ runs < MaxCalls
    /\ \E m \in SupportedModels :
         LET a == [NoArgs EXCEPT !.model = m]
             name == OutputFolder(listing, EnvName(a))
             r == MakeDirs(listing, name)
         IN  /\ args' = a
             /\ exc' = r.exc
             /\ listing' = r.listing
             /\ IF r.exc = "none"
                THEN /\ log_dir' = name
                     /\ ids' = Append(ids, ExperimentId(listing))
                ELSE UNCHANGED <<log_dir, ids>>
    /\ runs' = runs + 1
    /\ listing0' = listing
    /\ UNCHANGED <<files, pc, net, optimizer, best_acc, epoch, top1, is_best, lr_ret,
                   sink, trace, hist, files0, loaded, returned>>

SpecFolders == Init /\ [][CallFolder]_vars

\* ---------------------------------------- adjust_learning_rate, called alone
LrArgChoices ==
    [model : {"vgg16_bn"}, dataset : {"imagenet"}, lr : {DefaultLr, <<1, 2>>, <<3, 1>>},
     lr_type : LrTypes, n_epoch : 0..MaxNEpoch, ckpt_path : {<<>>}, eval : {FALSE}]

InitLr ==
    /\ listing = <<>>
    /\ files = (PrunedPath :> PrunedWeights)
    /\ runs = 0
    /\ pc = "idle"
    /\ exc = "none"
    /\ args \in LrArgChoices
    /\ net = <<InitWeights>>
    /\ optimizer = <<NewOptimizer(args)>>
    /\ best_acc = InitBestAcc
    /\ epoch = StartEpoch
    /\ log_dir = <<>>
    /\ top1 = <<>>
    /\ is_best = FALSE
    /\ lr_ret = <<>>
    /\ sink = <<>>
    /\ trace = <<>>
    /\ hist = <<>>
    /\ files0 = files
    /\ listing0 = listing
    /\ loaded = <<>>
    /\ ids = <<>>
    /\ returned = {}

\* adjust_learning_rate(optimizer, ep) called by itself with any epoch index
CallAdjust ==
    /\ \E ep \in 0..(MaxNEpoch + 1) :
         LET out == AdjustOutcome(args, ep)
         IN  /\ exc' = out.exc
             /\ epoch' = ep
             /\ optimizer' = <<SetLr(optimizer[1], out)>>
             /\ lr_ret' = IF out.exc = "none" THEN out.lr ELSE lr_ret
             /\ returned' = IF out.exc = "none"
                            THEN returned \cup {<<ep, out.lr>>}
                            ELSE returned
    /\ UNCHANGED <<listing, files, runs, pc, args, net, best_acc, log_dir, top1,
                   is_best, sink, trace, hist, files0, listing0, loaded, ids>>

SpecLr == InitLr /\ [][CallAdjust]_vars

\* ======================================================================
\* Properties
\* ======================================================================
\* Largest of the start value of best_acc and the entries of h.
SeqMax(h) ==
    LET vals == {h[i] : i \in 1..Len(h)} \cup {InitBestAcc}
    IN  CHOOSE m \in vals : \A v \in vals : v <= m

Larger(x, y) == IF x > y THEN x ELSE y

LatestPath == <<log_dir, <<"ckpt", ".pth.tar">>>>
BestPath == <<log_dir, <<"ckpt", ".best", ".pth.tar">>>>

\* An evaluation epoch with save has just completed.
AfterSavedEpoch == pc = "loop" /\ hist # <<>>

\* C1: across evaluation epochs with save, best_acc never decreases; an epoch
\* sets it to max(previous best_acc, the epoch's top-1 average), is_best is
\* set exactly when the epoch's top-1 average is strictly greater than the
\* previous best, a tie leaves best_acc unchanged with is_best false, and no
\* other step of the process changes best_acc.
C1_BestAccMonotone ==
    [][ /\ best_acc' >= best_acc
        /\ (pc = "test" /\ pc' = "loop") =>
              /\ best_acc' = Larger(best_acc, top1'[1])
              /\ is_best' = (top1'[1] > best_acc)
              /\ (top1'[1] = best_acc => best_acc' = best_acc /\ ~is_best')
              /\ (best_acc' # best_acc => top1'[1] > best_acc /\ is_best')
        /\ ~(pc = "test" /\ pc' = "loop") => best_acc' = best_acc ]_vars

\* C1 witness: a second epoch tied the best of the first, and is_best is false.
C1_Witness ==
    /\ AfterSavedEpoch
    /\ Len(hist) >= 2
    /\ hist[2] = hist[1]
    /\ hist[1] > InitBestAcc
    /\ best_acc = hist[1]
    /\ ~is_best

\* C2: after every evaluation epoch of a training run ckpt.pth.tar in the run
\* folder holds the record of the last completed epoch; ckpt.best.pth.tar
\* exists exactly when some epoch strictly exceeded the best before it, and
\* then holds the record of the earliest epoch that attained the current
\* best_acc; before the first epoch neither file exists, and no other
\* checkpoint file is written or changed.
C2_CheckpointFiles ==
    (log_dir # <<>>) =>
        /\ DOMAIN files \subseteq DOMAIN files0 \cup {LatestPath, BestPath}
        /\ \A p \in DOMAIN files0 : p \in DOMAIN files /\ files[p] = files0[p]
        /\ LatestPath \in DOMAIN files <=> hist # <<>>
        /\ BestPath \in DOMAIN files <=> \E i \in 1..Len(hist) : hist[i] > InitBestAcc
        /\ hist # <<>> =>
              /\ files[LatestPath].epoch = StartEpoch + Len(hist) - 1
              /\ files[LatestPath].acc = hist[Len(hist)]
              /\ files[LatestPath].optimizer.steps = Len(hist)
        /\ AfterSavedEpoch =>
              /\ files[LatestPath].state_dict = net[1]
              /\ files[LatestPath].optimizer = optimizer[1]
              /\ is_best => files[BestPath] = files[LatestPath]
        /\ BestPath \in DOMAIN files =>
              LET first == CHOOSE i \in 1..Len(hist) :
                             /\ hist[i] = SeqMax(hist)
                             /\ \A j \in 1..(i - 1) : hist[j] < hist[i]
              IN  /\ best_acc = SeqMax(hist)
                  /\ files[BestPath].epoch = StartEpoch + first - 1
                  /\ files[BestPath].acc = best_acc
                  /\ files[BestPath].optimizer.steps = first

\* C2 witness: the first epoch set the best, the second tied it: the latest
\* file holds the second epoch, the best file still the first.
C2_Witness ==
    /\ AfterSavedEpoch
    /\ Len(hist) = 2
    /\ hist[1] > InitBestAcc
    /\ hist[2] = hist[1]
    /\ files[LatestPath].epoch = StartEpoch + 1
    /\ files[BestPath].epoch = StartEpoch

C4_ResumeRoundTrip ==
    (pc = "optim" /\ loaded # <<>> /\ "state_dict" \in DOMAIN loaded[1]) =>
        /\ net[1] = loaded[1].state_dict
        /\ best_acc = loaded[1].acc

\* Largest of 0 and the members of a finite set of integers.
SetMax(S) ==
    LET vals == S \cup {0}
    IN  CHOOSE m \in vals : \A v \in vals : v <= m

\* A lone call or the driver's call of get_output_folder has returned.
FolderReturned == runs >= 1 /\ exc = "none" /\ log_dir # <<>>

RunName == <<args.model, "_", args.dataset, "_finetune">>

\* Run numbers of the subdirectories named <name>-run<N> for this run name.
SameNameIds ==
    { IntOf(SplitLast(n)).val : n \in { d \in DOMAIN listing0 :
          /\ listing0[d] = "dir"
          /\ Len(d) > Len(RunName) + 1
          /\ SubSeq(d, 1, Len(RunName) + 1) = RunName \o <<"-run">>
          /\ AllDigits(SubSeq(d, Len(RunName) + 2, Len(d))) } }

\* Run numbers int() reads after the last '-run' of any subdirectory.
AnyNameIds ==
    { IntOf(SplitLast(n)).val : n \in { d \in DOMAIN listing0 :
          listing0[d] = "dir" /\ IntOf(SplitLast(d)).ok } }

\* C5 as claimed: the folder returned is <name>-run<M> with M one more than
\* the largest N among the existing subdirectories named <name>-run<N> for
\* that run name (M = 1 when there is none).
C5_SameNameMax ==
    FolderReturned =>
        log_dir = RunName \o <<"-run">> \o FormatInt(SetMax(SameNameIds) + 1)

\* C5 amended: when it returns, get_output_folder has created and returned
\* <name>-run<M> with M one more than the largest integer read after the last
\* '-run' of ANY existing subdirectory, whatever its run name (M = 1 when no
\* subdirectory yields a positive integer); non-numeric suffixes and entries
\* that are not directories do not influence M; nothing else in the parent
\* changes.  With name-run1 and name-run3 present the result is name-run4.
C5_AnyNameMax ==
    FolderReturned =>
        /\ log_dir = RunName \o <<"-run">> \o FormatInt(SetMax(AnyNameIds) + 1)
        /\ log_dir \in DOMAIN listing /\ listing[log_dir] = "dir"
        /\ DOMAIN listing = DOMAIN listing0 \cup {log_dir}
        /\ \A d \in DOMAIN listing0 : listing[d] = listing0[d]
        /\ ( /\ RunName = EnvA
             /\ DOMAIN listing0 = {EnvA \o <<"-run", "1">>, EnvA \o <<"-run", "3">>}
             /\ \A d \in DOMAIN listing0 : listing0[d] = "dir" )
           => log_dir = EnvA \o <<"-run", "4">>

\* C5 witness: a call found another run name's run2 folder and a non-directory
\* entry with a higher number, and returned run3 for its own name.
C5_Witness ==
    /\ FolderReturned
    /\ RunName = EnvA
    /\ DOMAIN listing0 = {EnvB \o <<"-run", "2">>, EnvB \o <<"-run", "5">>}
    /\ listing0[EnvB \o <<"-run", "5">>] = "file"
    /\ log_dir = EnvA \o <<"-run", "3">>

\* C6: successive calls of get_output_folder on one parent never collide:
\* every call that returns, returns a folder that did not exist before the
\* call and is a directory after it, and the run numbers returned are
\* strictly increasing from call to call, whatever the run names.
C6_NoCollision ==
    /\ \A i, j \in 1..Len(ids) : i < j => ids[i] < ids[j]
    /\ FolderReturned =>
          /\ log_dir \notin DOMAIN listing0
          /\ log_dir \in DOMAIN listing
          /\ listing[log_dir] = "dir"

\* C6 witness: two calls have returned, starting from a non-empty parent.
C6_Witness ==
    /\ FolderReturned
    /\ Len(ids) = 2
    /\ ids[1] > 1
    /\ ids[2] = ids[1] + 1

\* The process is a training run (the eval flag is not set).
TrainingRun == pc # "idle" /\ ~args.eval

PolicyRate(a, e) ==
    IF a.lr_type = "exp" THEN Norm(<<a.lr[1] * Pow(24, e), a.lr[2] * Pow(25, e)>>)
    ELSE IF a.lr_type = "fixed" THEN a.lr
    ELSE LET c == CosPi(e, a.n_epoch)
         IN  Norm(<<a.lr[1] * (c[2] + c[1]), 2 * a.lr[2] * c[2]>>)

\* C8: for lr0 > 0 and n_epoch > 0 the rate adjust_learning_rate returns is,
\* under 'cos', lr0 at epoch 0 and (within lr0/1000 of) 0 at epoch n_epoch;
\* under 'exp', lr0 at epoch 0, lr0 * 0.96^epoch at every epoch and strictly
\* smaller at every later epoch; under 'fixed', lr0 at every epoch; and the
\* optimizer's rate is the rate last returned.
C8_PolicyValues ==
    /\ \A x, y \in returned : x[1] = y[1] => x = y
    /\ args.lr_type \notin {"cos", "exp", "fixed"} => returned = {}
    /\ (args.lr_type = "cos" /\ args.n_epoch = 0) => returned = {}
    /\ exc = "none" /\ lr_ret # <<>> => optimizer[1].lr = lr_ret
    /\ \A x \in returned :
          LET e == x[1]
              r == x[2]
          IN  /\ args.lr_type = "cos" =>
                    /\ e = 0 => r = args.lr
                    /\ e = args.n_epoch =>
                          ~RLess(RMul(args.lr, <<1, 1000>>), <<Abs(r[1]), r[2]>>)
              /\ args.lr_type = "exp" =>
                    /\ e = 0 => r = args.lr
                    /\ r = Norm(<<args.lr[1] * Pow(24, e), args.lr[2] * Pow(25, e)>>)
                    /\ \A y \in returned : e < y[1] => RLess(y[2], r)
              /\ args.lr_type = "fixed" => r = args.lr

\* C8 witness: under 'exp' the function has returned for epochs 0, 1 and 2.
C8_Witness ==
    /\ args.lr_type = "exp"
    /\ \A e \in 0..2 : \E x \in returned : x[1] = e
    /\ \E x \in returned : x[1] = 2 /\ RLess(x[2], args.lr)

PassKinds == <<"lr", "train", "test">>

====
